---- MODULE Spec2Model ----
(***************************************************************************)
(* Model of src/main.py: the redirect resolver (resolve_redirect_url and   *)
(* its handle_response callback), the three provider adapters             *)
(* (search_claude, search_gemini, search_chatgpt) and the sweep of main(). *)
(*                                                                         *)
(* A URL is a sequence of tokens <<scheme, host, segment, ...>>; a prefix  *)
(* test on the string is a prefix test on the token sequence.              *)
(*                                                                         *)
(* Library behaviour the code relies on, as modelled here:                 *)
(*  - leaving `with sync_playwright()` stops the Playwright driver, which  *)
(*    terminates every browser it launched;                                *)
(*  - response events of a navigation are delivered while page.goto is     *)
(*    running; a request the route handler aborts yields no response;      *)
(*  - browser.close() does not raise.                                      *)
(***************************************************************************)
EXTENDS Integers, Sequences, FiniteSets, TLC

\* ------------------------------------------------------------------ bounds
MaxCalls == 2
MaxEvents == 2

\* ------------------------------------------------------------- URL values
Prefix == <<"https", "vertexaisearch", "grounding-api-redirect">>
G1 == Prefix \o <<"t1">>
G2 == Prefix \o <<"t2">>
SiteA == <<"https", "site", "a">>
SiteB == <<"https", "site", "b">>
NearMiss == <<"https", "vertexaisearch", "other", "t1">>
RelB == <<"b">>
NoLocation == <<>>

CallUrls == {G1, SiteA, NearMiss}

\* str.startswith
StartsWith(s, p) == Len(s) >= Len(p) /\ SubSeq(s, 1, Len(p)) = p

IsRedirectUrlHostOnly(u) == StartsWith(u, SubSeq(Prefix, 1, 2))

\* line 27: the url is a Google grounding redirect
IsRedirectUrl(u) == StartsWith(u, Prefix)

\* line 49: location.startswith('http')
StartsWithHttp(loc) == loc # <<>> /\ Head(loc) \in {"http", "https"}

\* line 53: urljoin(response.url, location) for a root-relative reference
UrlJoin(base, loc) == SubSeq(base, 1, 2) \o loc

RedirectStatuses == {301, 302, 303, 307, 308}

\* The response events a navigation to u can deliver to the page.
DocumentResponses(u) ==
    [rtype : {"document"}, status : {200, 302}, location : {NoLocation, SiteA, RelB},
     rurl : {u, SiteA}]

SubResourceResponses(u) ==
    [rtype : {"script"}, status : {302}, location : {SiteB}, rurl : {SiteB}]

\* line 61: with the route installed every non-document request is aborted
Deliverable(u, isRouted) ==
    IF isRouted THEN DocumentResponses(u)
    ELSE DocumentResponses(u) \cup SubResourceResponses(u)

HandleResponseFirstOnly(final, u, r) ==
    IF final # u THEN final
    ELSE IF r.rtype = "document"
    THEN IF r.status \in RedirectStatuses
         THEN IF r.location # NoLocation
              THEN IF StartsWithHttp(r.location) THEN r.location
                   ELSE UrlJoin(r.rurl, r.location)
              ELSE final
         ELSE IF r.rurl # u THEN r.rurl ELSE final
    ELSE final

\* lines 40-56: the value of final_url after handle_response(response)
HandleResponse(final, u, r) ==
    IF r.rtype = "document"
    THEN IF r.status \in RedirectStatuses
         THEN IF r.location # NoLocation
              THEN IF StartsWithHttp(r.location) THEN r.location
                   ELSE UrlJoin(r.rurl, r.location)
              ELSE final
         ELSE IF r.rurl # u THEN r.rurl ELSE final
    ELSE final

PlaywrightStopLeak(b) == b

\* line 33, leaving the with block: the driver stops and takes its browsers down
PlaywrightStop(b) == IF b = "open" THEN "closed" ELSE b

StepAfterGotoFirst(step) ==
    CASE step = "enter" -> "launch"
      [] step = "launch" -> "new_page"
      [] step = "new_page" -> "goto"
      [] step = "goto" -> "on"
      [] step = "on" -> "route"
      [] step = "route" -> "close"
      [] step = "close" -> "ret"

\* lines 33-70: the statement that follows each statement of the slow path
StepAfter(step) ==
    CASE step = "enter" -> "launch"
      [] step = "launch" -> "new_page"
      [] step = "new_page" -> "on"
      [] step = "on" -> "route"
      [] step = "route" -> "goto"
      [] step = "goto" -> "close"
      [] step = "close" -> "ret"

AfterGotoErrorPropagate == "except"

\* lines 66-68: the handler of a failed page.goto swallows the exception
AfterGotoError == StepAfter("goto")

OuterExceptReraise(u) == [raised |-> TRUE, value |-> u]

\* lines 79-81: the outer handler returns the original url
OuterExcept(u) == [raised |-> FALSE, value |-> u]

\* lines 72-77
ReturnValue(final, u) == [raised |-> FALSE, value |-> IF final # u THEN final ELSE u]

\* ------------------------------------------------------------------ state
VARIABLES
    rpc,         \* position inside resolve_redirect_url
    url,         \* its argument
    final_url,   \* the nonlocal written by handle_response
    result,      \* [raised, value] of the last finished call
    playwright,  \* "stopped" | "running"
    browser,     \* "none" | "open" | "closed"
    listener,    \* page.on('response', ...) done
    routed,      \* page.route(...) done
    events,      \* responses delivered during this call
    navOutcome,  \* "none" | "ok" | "timeout" | "error"
    failedAt,    \* the statement that raised, or "none"
    launches,    \* browsers launched by this call
    missed,      \* responses delivered while no listener was attached
    atRaise,     \* final_url when page.goto raised
    log,         \* finished calls, oldest first
    config,      \* the content of config.yml
    mpc,         \* position inside main
    prompts,     \* the flattened, top_n-limited prompts
    cell,        \* number of sweep cells already attempted
    results,     \* the records gathered so far
    console,     \* one line per attempted cell: found n citations, or failed
    file,        \* llm_results.json
    csv,         \* llm_citations.csv
    pending,     \* search_gemini: grounding chunks not yet visited
    citations,   \* search_gemini: its citations list
    trace,       \* search_gemini: what resolve did for each chunk of this cell
    lastRaw,     \* the citations list of the last finished search before set()
    rich         \* the provider whose answers range over all bounded payloads

rvars == <<rpc, url, final_url, result, playwright, browser, listener, routed,
           events, navOutcome, failedAt, launches, missed, atRaise, log>>

mvars == <<config, mpc, prompts, cell, results, console, file, csv,
           pending, citations, trace, lastRaw, rich>>

vars == <<rvars, mvars>>

\* ------------------------------------------------------ adapters and sweep
MaxCites == 3
MaxChunks == 2
MaxScriptEvents == 1
MaxN == 2
MaxCells == 12

NoneValue == "None"

\* a file the run has not written
NotWritten == [written |-> FALSE, content |-> <<>>]

Written(content) == [written |-> TRUE, content |-> content]

\* lines 206-210
Models == <<"claude", "gemini", "chatgpt">>

RawUrls == {G1, G2, SiteA}

Range(seq) == {seq[i] : i \in DOMAIN seq}

SeqsUpTo(S, n) == UNION {[1..m -> S] : m \in 0..n}

Min(a, b) == IF a < b THEN a ELSE b

\* One citation-bearing leaf of a provider payload: a content block of Claude
\* (kind "text" or not), a grounding chunk of Gemini (with "web" or not), an
\* annotation of ChatGPT ("url_citation" or not).
Leaves ==
    [kind : {"text", "web", "url_citation"}, url : RawUrls]
    \cup [kind : {"other"}, url : {SiteA}]

KindOf(model) ==
    CASE model = "claude" -> "text"
      [] model = "gemini" -> "web"
      [] model = "chatgpt" -> "url_citation"

\* The payloads a provider call can return, besides raising.
Responses(model, n) ==
    SeqsUpTo({l \in Leaves : l.kind \in {KindOf(model), "other"}}, n)

PlainResponses(model) == {<<[kind |-> KindOf(model), url |-> SiteA]>>}

\* lines 110-113, 141-142, 163-169: the leaves the adapter of model keeps
RECURSIVE Collect(_, _)
Collect(model, payload) ==
    IF payload = <<>> THEN <<>>
    ELSE IF Head(payload).kind = KindOf(model)
         THEN <<Head(payload).url>> \o Collect(model, Tail(payload))
         ELSE Collect(model, Tail(payload))

ListOfSetKeepAll(seq) == {seq}

\* lines 115, 147, 171: list(set(citations)); the iteration order of a set of
\* strings depends on the hash seed of the process
ListOfSet(seq) ==
    {l \in [1..Cardinality(Range(seq)) -> Range(seq)] : Range(l) = Range(seq)}

\* The responses of a navigation that the scripts below are made of: the
\* redirect to a site, the relative redirect on that site, the page of the
\* site, and the indirection url answering itself.
ScriptResponses(u) ==
    {r \in DocumentResponses(u) :
        \/ r.status = 302 /\ r.location = SiteA /\ r.rurl = u
        \/ r.status = 302 /\ r.location = RelB /\ r.rurl = SiteA
        \/ r.status = 200 /\ r.location = NoLocation}

\* What the environment does during one call of resolve_redirect_url: the
\* statement of the setup that raises (or none), the responses delivered
\* during page.goto, and how page.goto ends.
Scripts(u, n) ==
    [fail : {"enter", "launch", "new_page", "on", "route"}, events : {<<>>},
     nav : {"ok"}]
    \cup [fail : {"none"}, events : SeqsUpTo(ScriptResponses(u), n),
          nav : {"ok", "timeout", "error"}]

RECURSIVE FoldResponses(_, _, _)
FoldResponses(final, u, evs) ==
    IF evs = <<>> THEN final
    ELSE FoldResponses(HandleResponse(final, u, Head(evs)), u, Tail(evs))

\* lines 25-81 as a function of the url and of what the environment does
ResolveUrl(u, s) ==
    IF ~IsRedirectUrl(u) THEN [raised |-> FALSE, value |-> u]
    ELSE IF s.fail # "none" THEN OuterExcept(u)
    ELSE IF s.nav # "ok" /\ AfterGotoError = "except" THEN OuterExcept(u)
    ELSE ReturnValue(FoldResponses(u, u, s.events), u)

\* lines 185-203; top_n is <<>> when the key is absent, <<k>> when it is k
Flatten(cfg) ==
    IF cfg.top_n = <<>> THEN cfg.prompts
    ELSE SubSeq(cfg.prompts, 1, Min(cfg.top_n[1], Len(cfg.prompts)))

\* line 212
TotalCalls == Len(Models) * Len(prompts) * Len(config.temperatures) * config.n

\* lines 222-227: the i-th cell (from 0) of
\* itertools.product(models, prompts, temperatures) x range(n)
CellAt(i) ==
    LET n == config.n
        t == Len(config.temperatures)
        p == Len(prompts)
    IN [model |-> Models[(i \div (n * t * p)) + 1],
        prompt |-> prompts[((i \div (n * t)) % p) + 1],
        temperature |-> config.temperatures[((i \div n) % t) + 1],
        iteration |-> (i % n) + 1]

\* lines 234-245
ResultOf(c, cits) ==
    [model |-> c.model, prompt |-> c.prompt.prompt, conflict |-> c.prompt.conflict,
     category |-> c.prompt.category, subcategory |-> c.prompt.subcategory,
     temperature |-> c.temperature, iteration |-> c.iteration,
     response |-> NoneValue, citations |-> cits, tool_calling |-> TRUE]

\* lines 259-271
RECURSIVE CsvRows(_)
CsvRows(rs) ==
    IF rs = <<>> THEN <<>>
    ELSE [i \in DOMAIN Head(rs).citations |->
            [model |-> Head(rs).model, prompt |-> Head(rs).prompt,
             conflict |-> Head(rs).conflict, category |-> Head(rs).category,
             subcategory |-> Head(rs).subcategory,
             temperature |-> Head(rs).temperature,
             iteration |-> Head(rs).iteration,
             citation |-> Head(rs).citations[i]]]
         \o CsvRows(Tail(rs))

PromptItems ==
    <<[prompt |-> "p1", conflict |-> "c1", category |-> "cat1", subcategory |-> "s1"],
      [prompt |-> "p2", conflict |-> "c1", category |-> "cat2", subcategory |-> "s2"]>>

MainIdle ==
    /\ config = [prompts |-> <<>>, temperatures |-> <<>>, n |-> 0, top_n |-> <<>>]
    /\ mpc = "off"
    /\ prompts = <<>>
    /\ cell = 0
    /\ results = <<>>
    /\ console = <<>>
    /\ file = NotWritten
    /\ csv = NotWritten
    /\ pending = <<>>
    /\ citations = <<>>
    /\ trace = <<>>
    /\ lastRaw = <<>>
    /\ rich = "none"

NoResult == [raised |-> FALSE, value |-> <<>>]

ResolveInit ==
    /\ rpc = "idle"
    /\ url = <<>>
    /\ final_url = <<>>
    /\ result = NoResult
    /\ playwright = "stopped"
    /\ browser = "none"
    /\ listener = FALSE
    /\ routed = FALSE
    /\ events = <<>>
    /\ navOutcome = "none"
    /\ failedAt = "none"
    /\ launches = 0
    /\ missed = 0
    /\ atRaise = <<>>
    /\ log = <<>>
    /\ MainIdle

Finished(r) == Append(log, [url |-> url, result |-> r, launches |-> launches])

\* a caller invokes resolve_redirect_url(u)
Call(u) ==
    /\ rpc \in {"idle", "returned", "raised"}
    /\ Len(log) < MaxCalls
    /\ rpc' = "check"
    /\ url' = u
    /\ final_url' = <<>>
    /\ result' = NoResult
    /\ browser' = "none"
    /\ listener' = FALSE
    /\ routed' = FALSE
    /\ events' = <<>>
    /\ navOutcome' = "none"
    /\ failedAt' = "none"
    /\ launches' = 0
    /\ missed' = 0
    /\ atRaise' = <<>>
    /\ UNCHANGED <<playwright, log>>
    /\ UNCHANGED mvars

\* lines 27-30
CheckPrefix ==
    /\ rpc = "check"
    /\ IF ~IsRedirectUrl(url)
       THEN /\ result' = [raised |-> FALSE, value |-> url]
            /\ log' = Finished([raised |-> FALSE, value |-> url])
            /\ rpc' = "returned"
       ELSE /\ rpc' = "enter"
            /\ UNCHANGED <<result, log>>
    /\ UNCHANGED <<url, final_url, playwright, browser, listener, routed, events,
                   navOutcome, failedAt, launches, missed, atRaise>>
    /\ UNCHANGED mvars

\* line 33: sync_playwright().__enter__()
EnterPlaywright ==
    /\ rpc = "enter"
    /\ playwright' = "running"
    /\ rpc' = StepAfter("enter")
    /\ UNCHANGED <<url, final_url, result, browser, listener, routed, events,
                   navOutcome, failedAt, launches, missed, atRaise, log>>
    /\ UNCHANGED mvars

\* line 34
Launch ==
    /\ rpc = "launch"
    /\ browser' = "open"
    /\ launches' = launches + 1
    /\ rpc' = StepAfter("launch")
    /\ UNCHANGED <<url, final_url, result, playwright, listener, routed, events,
                   navOutcome, failedAt, missed, atRaise, log>>
    /\ UNCHANGED mvars

\* lines 35-37
NewPage ==
    /\ rpc = "new_page"
    /\ final_url' = url
    /\ rpc' = StepAfter("new_page")
    /\ UNCHANGED <<url, result, playwright, browser, listener, routed, events,
                   navOutcome, failedAt, launches, missed, atRaise, log>>
    /\ UNCHANGED mvars

\* line 58
PageOn ==
    /\ rpc = "on"
    /\ listener' = TRUE
    /\ rpc' = StepAfter("on")
    /\ UNCHANGED <<url, final_url, result, playwright, browser, routed, events,
                   navOutcome, failedAt, launches, missed, atRaise, log>>
    /\ UNCHANGED mvars

\* line 61
PageRoute ==
    /\ rpc = "route"
    /\ routed' = TRUE
    /\ rpc' = StepAfter("route")
    /\ UNCHANGED <<url, final_url, result, playwright, browser, listener, events,
                   navOutcome, failedAt, launches, missed, atRaise, log>>
    /\ UNCHANGED mvars

\* lines 33-61: one of the statements before the navigation raises; the
\* exception leaves the with block and reaches the outer handler
SetupRaises ==
    /\ rpc \in {"enter", "launch", "new_page", "on", "route"}
    /\ failedAt' = rpc
    /\ playwright' = "stopped"
    /\ browser' = IF rpc = "enter" THEN browser ELSE PlaywrightStop(browser)
    /\ rpc' = "except"
    /\ UNCHANGED <<url, final_url, result, listener, routed, events, navOutcome,
                   launches, missed, atRaise, log>>
    /\ UNCHANGED mvars

\* line 65 running: the page delivers one response of the navigation
Response(r) ==
    /\ rpc = "goto"
    /\ Len(events) < MaxEvents
    /\ r \in Deliverable(url, routed)
    /\ events' = Append(events, r)
    /\ IF listener
       THEN /\ final_url' = HandleResponse(final_url, url, r)
            /\ UNCHANGED missed
       ELSE /\ missed' = missed + 1
            /\ UNCHANGED final_url
    /\ UNCHANGED <<rpc, url, result, playwright, browser, listener, routed,
                   navOutcome, failedAt, launches, atRaise, log>>
    /\ UNCHANGED mvars

\* line 65 returns
GotoReturns ==
    /\ rpc = "goto"
    /\ navOutcome' = "ok"
    /\ rpc' = StepAfter("goto")
    /\ UNCHANGED <<url, final_url, result, playwright, browser, listener, routed,
                   events, failedAt, launches, missed, atRaise, log>>
    /\ UNCHANGED mvars

\* lines 64-68: page.goto times out or raises
GotoRaises(kind) ==
    /\ rpc = "goto"
    /\ kind \in {"timeout", "error"}
    /\ navOutcome' = kind
    /\ atRaise' = final_url
    /\ rpc' = AfterGotoError
    /\ playwright' = IF AfterGotoError = "except" THEN "stopped" ELSE playwright
    /\ browser' = IF AfterGotoError = "except" THEN PlaywrightStop(browser) ELSE browser
    /\ UNCHANGED <<url, final_url, result, listener, routed, events, failedAt,
                   launches, missed, log>>
    /\ UNCHANGED mvars

\* line 70
BrowserClose ==
    /\ rpc = "close"
    /\ browser' = "closed"
    /\ rpc' = StepAfter("close")
    /\ UNCHANGED <<url, final_url, result, playwright, listener, routed, events,
                   navOutcome, failedAt, launches, missed, atRaise, log>>
    /\ UNCHANGED mvars

\* lines 72-77, then the with block is left
Return ==
    /\ rpc = "ret"
    /\ result' = ReturnValue(final_url, url)
    /\ log' = Finished(ReturnValue(final_url, url))
    /\ playwright' = "stopped"
    /\ browser' = PlaywrightStop(browser)
    /\ rpc' = "returned"
    /\ UNCHANGED <<url, final_url, listener, routed, events, navOutcome, failedAt,
                   launches, missed, atRaise>>
    /\ UNCHANGED mvars

\* lines 79-81
Except ==
    /\ rpc = "except"
    /\ result' = OuterExcept(url)
    /\ log' = Finished(OuterExcept(url))
    /\ rpc' = IF OuterExcept(url).raised THEN "raised" ELSE "returned"
    /\ UNCHANGED <<url, final_url, playwright, browser, listener, routed, events,
                   navOutcome, failedAt, launches, missed, atRaise>>
    /\ UNCHANGED mvars

ResolveNext ==
    \/ \E u \in CallUrls : Call(u)
    \/ CheckPrefix
    \/ EnterPlaywright
    \/ Launch
    \/ NewPage
    \/ PageOn
    \/ PageRoute
    \/ SetupRaises
    \/ \E r \in DocumentResponses(url) \cup SubResourceResponses(url) : Response(r)
    \/ GotoReturns
    \/ \E kind \in {"timeout", "error"} : GotoRaises(kind)
    \/ BrowserClose
    \/ Return
    \/ Except

ResolveSpec == ResolveInit /\ [][ResolveNext]_vars

\* ------------------------------------------------- resolver: properties

\* a response from which handle_response takes a destination
Captures(u, r) ==
    /\ r.rtype = "document"
    /\ \/ r.status \in {301, 302, 303, 307, 308} /\ r.location # <<>>
       \/ r.status \notin {301, 302, 303, 307, 308} /\ r.rurl # u

\* the destination such a response gives
Destination(r) ==
    IF r.status \in {301, 302, 303, 307, 308}
    THEN IF Head(r.location) \in {"http", "https"} THEN r.location
         ELSE <<r.rurl[1], r.rurl[2]>> \o r.location
    ELSE r.rurl

CaptureIndices(u, evs) == {i \in DOMAIN evs : Captures(u, evs[i])}

FirstCapture(u, evs) ==
    IF CaptureIndices(u, evs) = {} THEN u
    ELSE Destination(evs[CHOOSE i \in CaptureIndices(u, evs) :
                             \A j \in CaptureIndices(u, evs) : i <= j])

LastCapture(u, evs) ==
    IF CaptureIndices(u, evs) = {} THEN u
    ELSE Destination(evs[CHOOSE i \in CaptureIndices(u, evs) :
                             \A j \in CaptureIndices(u, evs) : i >= j])

\* ------------------------------------------------------------ main: sweep
Configs ==
    {c \in [prompts : {PromptItems}, temperatures : {<<0>>, <<0, 7>>},
            n : 1..MaxN, top_n : {<<>>, <<1>>}] :
        Len(Models) * Len(Flatten(c)) * Len(c.temperatures) * c.n <= MaxCells}

OneCellPerModel ==
    [prompts |-> <<PromptItems[1]>>, temperatures |-> <<0>>, n |-> 1,
     top_n |-> <<>>]

ResolverIdle ==
    /\ rpc = "idle"
    /\ url = <<>>
    /\ final_url = <<>>
    /\ result = NoResult
    /\ playwright = "stopped"
    /\ browser = "none"
    /\ listener = FALSE
    /\ routed = FALSE
    /\ events = <<>>
    /\ navOutcome = "none"
    /\ failedAt = "none"
    /\ launches = 0
    /\ missed = 0
    /\ atRaise = <<>>
    /\ log = <<>>

MainInit(cfgs, focus) ==
    /\ config \in cfgs
    /\ rich \in focus
    /\ mpc = "start"
    /\ prompts = <<>>
    /\ cell = 0
    /\ results = <<>>
    /\ console = <<>>
    /\ file = NotWritten
    /\ csv = NotWritten
    /\ pending = <<>>
    /\ citations = <<>>
    /\ trace = <<>>
    /\ lastRaw = <<>>
    /\ ResolverIdle

\* lines 182-217
Start ==
    /\ mpc = "start"
    /\ prompts' = Flatten(config)
    /\ mpc' = "sweep"
    /\ UNCHANGED <<config, cell, results, console, file, csv, pending, citations,
                   trace, lastRaw, rich>>
    /\ UNCHANGED rvars

AtCellOf(model) ==
    /\ mpc = "sweep"
    /\ cell < TotalCalls
    /\ CellAt(cell).model = model

AfterCellFailureAbort == "aborted"

\* lines 250-251: the handler prints the failure and the loop goes on
AfterCellFailure == "sweep"

\* lines 247-248
Recorded(cits) ==
    /\ results' = Append(results, ResultOf(CellAt(cell), cits))
    /\ console' = Append(console, [cell |-> CellAt(cell), status |-> "found",
                                   count |-> Len(cits)])
    /\ cell' = cell + 1
    /\ mpc' = "sweep"

\* lines 250-251
Failed ==
    /\ console' = Append(console, [cell |-> CellAt(cell), status |-> "failed",
                                   count |-> 0])
    /\ cell' = cell + 1
    /\ mpc' = AfterCellFailure
    /\ UNCHANGED results

\* lines 92, 129, 153 raise inside line 232: the provider call fails
ProviderRaises ==
    /\ mpc = "sweep"
    /\ cell < TotalCalls
    /\ Failed
    /\ trace' = <<>>
    /\ UNCHANGED <<config, prompts, file, csv, pending, citations, lastRaw, rich>>
    /\ UNCHANGED rvars

\* lines 88-115 called from line 232
SearchClaude(resp) ==
    /\ AtCellOf("claude")
    /\ \E l \in ListOfSet(Collect("claude", resp)) : Recorded(l)
    /\ lastRaw' = Collect("claude", resp)
    /\ trace' = <<>>
    /\ UNCHANGED <<config, prompts, file, csv, pending, citations, rich>>
    /\ UNCHANGED rvars

\* lines 149-171 called from line 232
SearchChatgpt(resp) ==
    /\ AtCellOf("chatgpt")
    /\ \E l \in ListOfSet(Collect("chatgpt", resp)) : Recorded(l)
    /\ lastRaw' = Collect("chatgpt", resp)
    /\ trace' = <<>>
    /\ UNCHANGED <<config, prompts, file, csv, pending, citations, rich>>
    /\ UNCHANGED rvars

\* lines 117-140 called from line 232: the provider answered
GeminiCall(resp) ==
    /\ AtCellOf("gemini")
    /\ pending' = resp
    /\ citations' = <<>>
    /\ trace' = <<>>
    /\ mpc' = "gemini"
    /\ UNCHANGED <<config, prompts, cell, results, console, file, csv, lastRaw, rich>>
    /\ UNCHANGED rvars

\* how one resolution ended, read off what the environment did
Why(u, s) ==
    IF ~StartsWith(u, Prefix) THEN "final"
    ELSE IF s.fail # "none" THEN "navigation_error"
    ELSE IF CaptureIndices(u, s.events) # {} THEN "resolved"
    ELSE IF s.nav = "timeout" THEN "timeout"
    ELSE IF s.nav = "error" THEN "navigation_error"
    ELSE "no_redirect_observed"

\* lines 141-145: one iteration of the loop over the grounding chunks
GeminiChunk(s) ==
    /\ mpc = "gemini"
    /\ pending # <<>>
    /\ s \in Scripts(Head(pending).url, MaxScriptEvents)
    /\ LET leaf == Head(pending)
           r == ResolveUrl(leaf.url, s)
           t == [raw |-> leaf.url, out |-> r.value, why |-> Why(leaf.url, s)]
       IN IF leaf.kind # "web"
          THEN /\ pending' = Tail(pending)
               /\ UNCHANGED <<citations, trace, cell, results, console, mpc>>
          ELSE IF r.raised
          THEN /\ Failed
               /\ pending' = <<>>
               /\ citations' = <<>>
               /\ trace' = Append(trace, t)
          ELSE /\ pending' = Tail(pending)
               /\ citations' = Append(citations, r.value)
               /\ trace' = Append(trace, t)
               /\ UNCHANGED <<cell, results, console, mpc>>
    /\ UNCHANGED <<config, prompts, file, csv, lastRaw, rich>>
    /\ UNCHANGED rvars

\* line 147, then lines 234-248
GeminiReturn ==
    /\ mpc = "gemini"
    /\ pending = <<>>
    /\ \E l \in ListOfSet(citations) : Recorded(l)
    /\ lastRaw' = citations
    /\ citations' = <<>>
    /\ UNCHANGED <<config, prompts, file, csv, pending, trace, rich>>
    /\ UNCHANGED rvars

\* lines 253-278
Persist ==
    /\ mpc = "sweep"
    /\ cell = TotalCalls
    /\ file' = Written(results)
    /\ csv' = IF CsvRows(results) # <<>> THEN Written(CsvRows(results)) ELSE NotWritten
    /\ mpc' = "done"
    /\ UNCHANGED <<config, prompts, cell, results, console, pending, citations,
                   trace, lastRaw, rich>>
    /\ UNCHANGED rvars

AllScripts == UNION {Scripts(u, MaxScriptEvents) : u \in RawUrls}

\* the answers of the provider of the next cell, besides raising
Answers(model) ==
    IF rich # model THEN PlainResponses(model)
    ELSE IF model = "gemini" THEN Responses(model, MaxChunks)
    ELSE Responses(model, MaxCites)

MainNext ==
    \/ Start
    \/ ProviderRaises
    \/ \E resp \in Answers("claude") : SearchClaude(resp)
    \/ \E resp \in Answers("chatgpt") : SearchChatgpt(resp)
    \/ \E resp \in Answers("gemini") : GeminiCall(resp)
    \/ \E s \in AllScripts : GeminiChunk(s)
    \/ GeminiReturn
    \/ Persist

\* one cell per provider; one of the providers answers with any payload
SearchInit == MainInit({OneCellPerModel}, {"claude", "gemini", "chatgpt"})

SearchSpec == SearchInit /\ [][MainNext]_vars

\* every configuration; every provider answers with one citation or fails
SweepInit == MainInit(Configs, {"none"})

SweepSpec == SweepInit /\ [][MainNext]_vars /\ WF_vars(MainNext)

Done == rpc \in {"returned", "raised"}

\* C1: for a URL that does not start with the indirection prefix, resolve
\* returns that URL unchanged, and at no point of the call is Playwright
\* started or a browser launched.
C1_FastPathNoLaunch ==
    /\ (rpc # "idle" /\ ~StartsWith(url, Prefix)) =>
          /\ rpc \in {"check", "returned"}
          /\ launches = 0 /\ browser = "none" /\ playwright = "stopped"
          /\ rpc = "returned" => result = [raised |-> FALSE, value |-> url]
    /\ \A i \in DOMAIN log :
          ~StartsWith(log[i].url, Prefix) =>
              /\ log[i].launches = 0
              /\ log[i].result = [raised |-> FALSE, value |-> log[i].url]

C1_Witness ==
    /\ rpc = "returned" /\ url = NearMiss
    /\ result.value = NearMiss /\ launches = 0

\* C4: when page.goto times out or raises after handle_response has captured
\* a destination, resolve returns that destination, not the original URL.
C4_TimeoutFloor ==
    (Done /\ navOutcome \in {"timeout", "error"} /\ atRaise # url) =>
        /\ result = [raised |-> FALSE, value |-> atRaise]
        /\ result.value # url
        /\ result.value = LastCapture(url, events)

C4_Witness ==
    /\ rpc = "returned" /\ navOutcome = "timeout"
    /\ atRaise = SiteA /\ result.value = SiteA /\ url = G1

\* C5: resolving the same URL twice gives the same result both times and the
\* second call launches no browser (it is served from a cache keyed by the URL).
C5_SecondCallCached ==
    \A i, j \in DOMAIN log :
        (i < j /\ log[i].url = log[j].url) =>
            /\ log[j].result = log[i].result
            /\ log[j].launches = 0

\* C6: whenever resolve is not running, no browser it launched is open and the
\* Playwright driver is stopped, whichever statement raised.
C6_NoOpenSession ==
    (rpc \in {"idle", "returned", "raised"}) =>
        /\ browser # "open"
        /\ playwright = "stopped"
        /\ launches > 0 => browser = "closed"

C6_Witness ==
    /\ rpc = "returned" /\ failedAt = "new_page"
    /\ launches = 1 /\ browser = "closed"

\* C9: the response listener is attached before page.goto starts: while the
\* navigation runs the listener is attached, and no response of the call was
\* delivered to a page without listener.
C9_ListenerBeforeGoto ==
    /\ rpc = "goto" => listener
    /\ missed = 0
    /\ events # <<>> => listener

C9_Witness == rpc = "goto" /\ Len(events) > 0 /\ listener /\ missed = 0

NoDup(seq) == \A i, j \in DOMAIN seq : i # j => seq[i] # seq[j]

Last(seq) == seq[Len(seq)]

\* the distinct elements of seq in the order of their first occurrence
RECURSIVE FirstSeen(_)
FirstSeen(seq) ==
    IF seq = <<>> THEN <<>>
    ELSE LET front == FirstSeen(SubSeq(seq, 1, Len(seq) - 1))
         IN IF Last(seq) \in Range(front) THEN front ELSE Append(front, Last(seq))

\* the last attempted cell was recorded
LastCellRecorded ==
    /\ console # <<>>
    /\ Last(console).status = "found"
    /\ results # <<>>
    /\ Last(results) = ResultOf(Last(console).cell, Last(results).citations)

\* search_gemini has returned (or raised) for the cell the trace belongs to
GeminiCellOver == mpc # "gemini" /\ trace # <<>>

\* The step machine of resolve_redirect_url and the function ResolveUrl agree.
ResolveUrlAgrees ==
    Done => result = ResolveUrl(url, [fail |-> failedAt, events |-> events,
                                      nav |-> IF navOutcome = "none" THEN "ok"
                                              ELSE navOutcome])

\* C2: the citation list recorded for a cell, whatever the provider, holds no
\* value twice; the list of a Gemini cell has one entry per distinct resolved
\* value, so two raw URLs with the same destination give a single entry.
C2_NoDuplicateCitations ==
    /\ \A i \in DOMAIN results : NoDup(results[i].citations)
    /\ (GeminiCellOver /\ LastCellRecorded) =>
          Len(Last(results).citations)
              = Cardinality({trace[i].out : i \in DOMAIN trace})

C2_Witness ==
    /\ GeminiCellOver /\ LastCellRecorded
    /\ Len(trace) = 2
    /\ trace[1].raw = G1 /\ trace[2].raw = G2
    /\ trace[1].out = SiteA /\ trace[2].out = SiteA
    /\ Last(results).citations = <<SiteA>>

\* C3: when the citations of a cell contain duplicates, the deduplicated list
\* holds the distinct citations in the order of their first occurrence.
C3_FirstSeenOrder ==
    (LastCellRecorded /\ ~NoDup(lastRaw)) =>
        Last(results).citations = FirstSeen(lastRaw)

\* C7: a resolution that fails (setup error, timeout, navigation error, no
\* redirect observed) leaves the citation in the list under its original URL;
\* resolve does not raise, the cell is recorded and its list holds every
\* resolved value of the cell.
C7_UnresolvedKept ==
    GeminiCellOver =>
        /\ LastCellRecorded
        /\ Last(console).cell.model = "gemini"
        /\ Last(console).count = Len(Last(results).citations)
        /\ Range(Last(results).citations) = {trace[i].out : i \in DOMAIN trace}
        /\ \A i \in DOMAIN trace :
              trace[i].why \notin {"final", "resolved"} =>
                  /\ trace[i].out = trace[i].raw
                  /\ trace[i].raw \in Range(Last(results).citations)

C7_Witness ==
    /\ GeminiCellOver /\ LastCellRecorded
    /\ Len(trace) = 2
    /\ trace[1].raw = SiteA /\ trace[1].why = "final"
    /\ trace[2].raw = G1 /\ trace[2].why = "timeout"
    /\ Range(Last(results).citations) = {SiteA, G1}
    /\ Last(console).count = 2

IndexIn(seq, x) == CHOOSE i \in DOMAIN seq : seq[i] = x

\* the place of a cell in the sweep: provider, then prompt, then temperature,
\* then iteration
Rank(c) ==
    <<IndexIn(<<"claude", "gemini", "chatgpt">>, c.model),
      IndexIn(prompts, c.prompt),
      IndexIn(config.temperatures, c.temperature),
      c.iteration>>

Before(a, b) ==
    \E k \in 1..4 : a[k] < b[k] /\ \A m \in 1..(k - 1) : a[m] = b[m]

FoundIndices == {i \in DOMAIN console : console[i].status = "found"}

\* the number of console lines up to line i that report citations
FoundUpTo(i) == Cardinality({j \in FoundIndices : j <= i})

SweepFinished ==
    /\ Len(console) = 3 * Len(prompts) * Len(config.temperatures) * config.n
    /\ \A i \in DOMAIN console :
          /\ console[i].cell.model \in {"claude", "gemini", "chatgpt"}
          /\ console[i].cell.prompt \in Range(prompts)
          /\ console[i].cell.temperature \in Range(config.temperatures)
          /\ console[i].cell.iteration \in 1..config.n
    /\ \A i, j \in DOMAIN console :
          i < j => Before(Rank(console[i].cell), Rank(console[j].cell))
    /\ Len(results) = Cardinality(FoundIndices)
    /\ \A i \in FoundIndices :
          results[FoundUpTo(i)]
              = ResultOf(console[i].cell, results[FoundUpTo(i)].citations)
    /\ file = [written |-> TRUE, content |-> results]

\* C8: whatever cells fail, the run ends: every cell of the sweep was
\* attempted once, in order, each failing cell has its failure line and no
\* record, and the file written holds the records of all the other cells.
C8_SweepAlwaysPersists ==
    /\ <>(mpc = "done")
    /\ [](mpc = "done" => SweepFinished)
    /\ [](mpc \in {"start", "sweep", "gemini", "done"})

C8_Witness ==
    /\ mpc = "done"
    /\ Len(console) = 6
    /\ console[1].status = "failed"
    /\ console[4].status = "failed"
    /\ console[6].status = "found"
    /\ file.written /\ Len(file.content) = 4

====
